---- MODULE Spec2Model ----
(***************************************************************************)
(* Interview copilot: the generation pipeline of interview_engine.py       *)
(* (generate_with_fallback, stream_with_fallback, extract_text), the       *)
(* ledger of InterviewEngine (ask_question, stream_answer,                 *)
(* suggest_follow_up) and the speech capture loops of speech_listener.py   *)
(* (listen_stream).                                                        *)
(*                                                                         *)
(* A Python str is a sequence of one-character strings, so that strip()    *)
(* and concatenation are computed and not assumed.  An optional value      *)
(* (None or a str) is a sequence of length 0 or 1.                         *)
(***************************************************************************)
EXTENDS Integers, Sequences, FiniteSets, TLC

\* ------------------------------------------------------------------ bounds
\* longest text of one provider chunk
MaxStrLen == 1
\* most chunks in one provider reply
MaxChunks == 2
\* largest max_retries a caller passes (the engine passes 2 and 1; with 3 a
\* call sleeps twice)
MaxR == 3

\* ----------------------------------------------------------------- strings
Chars == {"a", " "}

Str(n) == UNION {[1..k -> Chars] : k \in 0..n}

None == <<>>

Some(s) == <<s>>

\* Python truthiness of an optional str: neither None nor ""
Truthy(o) == Len(o) = 1 /\ Len(o[1]) > 0

RECURSIVE LStrip(_)
LStrip(s) ==
    IF s = <<>> THEN <<>>
    ELSE IF Head(s) = " " THEN LStrip(Tail(s)) ELSE s

RECURSIVE RStrip(_)
RStrip(s) ==
    IF s = <<>> THEN <<>>
    ELSE IF s[Len(s)] = " " THEN RStrip(SubSeq(s, 1, Len(s) - 1)) ELSE s

\* str.strip()
Strip(s) == RStrip(LStrip(s))

\* "".join(ss) for a sequence of str
RECURSIVE Concat(_)
Concat(ss) == IF ss = <<>> THEN <<>> ELSE Head(ss) \o Concat(Tail(ss))

\* ------------------------------------------------------- provider replies
\* What the provider has to say for the request: its chunks in order, each
\* with an optional text.
Chunks == {None} \cup {Some(s) : s \in Str(MaxStrLen)}

Contents == UNION {[1..k -> Chunks] : k \in 0..MaxChunks}

PRIMARY_MODEL == "models/gemini-3-flash-preview"

FALLBACK_MODEL == "models/gemini-flash-latest"

OPENAI_MODEL == "gpt-4o-mini"

IsSome(o) == Len(o) = 1

TextOf(o) == o[1]

\* the texts of the chunks that carry one, in order
RECURSIVE PartTexts(_)
PartTexts(c) ==
    IF c = <<>> THEN <<>>
    ELSE IF IsSome(Head(c)) THEN <<TextOf(Head(c))>> \o PartTexts(Tail(c))
         ELSE PartTexts(Tail(c))

\* models.generate_content(...): a response with the convenience field text
\* (None when there is no part) and the nested candidates/content/parts list.
GeminiResponse(model, c) ==
    [model |-> model,
     text |-> IF PartTexts(c) = <<>> THEN None ELSE Some(Concat(PartTexts(c))),
     candidates |-> IF PartTexts(c) = <<>> THEN <<>>
                    ELSE << [content |-> Some([parts |->
                              [i \in 1..Len(PartTexts(c)) |->
                                  [text |-> Some(PartTexts(c)[i])]]])] >>]

\* chat.completions.create(...): a ChatCompletion; it has choices, and neither
\* a text nor a candidates attribute.
OpenAIResponse(model, c) ==
    [model |-> model,
     choices |-> << [message |-> [content |->
                      IF PartTexts(c) = <<>> THEN None
                      ELSE Some(Concat(PartTexts(c)))]] >>]

NoResponse == [model |-> "none"]

\* ------------------------------------------------------------ extract_text
Ok(s) == [ok |-> TRUE, text |-> s, err |-> "none"]

Raise(e) == [ok |-> FALSE, text |-> <<>>, err |-> e]

\* the first part with text, over the parts of one candidate
RECURSIVE FirstPartText(_)
FirstPartText(parts) ==
    IF parts = <<>> THEN None
    ELSE IF "text" \in DOMAIN Head(parts) /\ Truthy(Head(parts).text)
         THEN Head(parts).text
         ELSE FirstPartText(Tail(parts))

\* the first part with text, over the candidates in order
RECURSIVE FirstCandidateText(_)
FirstCandidateText(cands) ==
    IF cands = <<>> THEN None
    ELSE LET cand == Head(cands)
             here == IF "content" \in DOMAIN cand /\ IsSome(cand.content)
                     THEN FirstPartText(TextOf(cand.content).parts)
                     ELSE None
         IN IF IsSome(here) THEN here ELSE FirstCandidateText(Tail(cands))

extract_text(response) ==
    IF "text" \in DOMAIN response /\ Truthy(response.text)
    THEN Ok(Strip(TextOf(response.text)))
    ELSE IF "candidates" \in DOMAIN response
              /\ IsSome(FirstCandidateText(response.candidates))
         THEN Ok(Strip(TextOf(FirstCandidateText(response.candidates))))
         ELSE Raise("ValueError")

\* ------------------------------------------------------------------ errors
NoError == [type |-> "none", msg |-> "none"]

AIServiceError(m) == [type |-> "AIServiceError", msg |-> m]

\* an error of the provider's own library, propagated as it is
Native(t) == [type |-> t, msg |-> "provider"]

ProviderNative == {"ServerError", "ClientError", "APIConnectionError", "APIStatusError"}

\* The text of a provider error, as the set of the lower-cased fragments the
\* formatters look for in it.
ClientMessages ==
    { {}, {"reported as leaked", "403"}, {"permission_denied"}, {"invalid", "api", "key"} }

StatusMessages == { {}, {"incorrect api key"}, {"exceeded your current quota"} }

_format_gemini_client_error(lowered) ==
    IF "reported as leaked" \in lowered
    THEN AIServiceError("Gemini API key is blocked (reported as leaked)")
    ELSE IF "permission_denied" \in lowered \/ "403" \in lowered
    THEN AIServiceError("Gemini API permission denied")
    ELSE IF "invalid" \in lowered /\ "api" \in lowered /\ "key" \in lowered
    THEN AIServiceError("Gemini API key is invalid")
    ELSE AIServiceError("str(exc)")

_format_openai_client_error(lowered) ==
    IF "incorrect api key" \in lowered
    THEN AIServiceError("OpenAI API key is incorrect")
    ELSE IF "exceeded your current quota" \in lowered
    THEN AIServiceError("OpenAI API quota exceeded")
    ELSE AIServiceError("str(exc)")

\* ----------------------------------------------------------------- clients
EnvKeys == {"GEMINI_API_KEY", "OPENAI_API_KEY"}

\* a client getter that does not look at the credential
get_gemini_client_unchecked(e) == NoError

\* get_gemini_client(): the error it raises, NoError when it returns a client
get_gemini_client(e) ==
    IF "GEMINI_API_KEY" \notin e
    THEN AIServiceError("GEMINI_API_KEY is missing")
    ELSE NoError

get_openai_client(e) ==
    IF "OPENAI_API_KEY" \notin e
    THEN AIServiceError("OPENAI_API_KEY is missing")
    ELSE NoError

\* --------------------------------------------------------------- the state
VARIABLES
    ai_service,     \* the ai_service argument of the calls
    env,            \* the credentials present in the environment
    content,        \* what the provider answers to the request
    clients,        \* the cached clients (_gemini_client, _openai_client)
    g_pc,           \* generate_with_fallback: position
    max_retries,    \* generate_with_fallback: its argument
    attempt,        \* generate_with_fallback: the loop variable
    g_log,          \* generate_with_fallback: provider calls and sleeps so far
    g_result,       \* generate_with_fallback: the response returned
    g_error,        \* generate_with_fallback: the error raised
    s_pc,           \* stream_with_fallback: position
    s_stream,       \* stream_with_fallback: the model behind `stream`
    s_idx,          \* stream_with_fallback: the next chunk of the stream
    s_yielded,      \* stream_with_fallback: the chunks yielded so far
    s_log,          \* stream_with_fallback: provider calls so far
    s_error         \* stream_with_fallback: the error raised

genVars == <<g_pc, max_retries, attempt, g_log, g_result, g_error>>

streamVars == <<s_pc, s_stream, s_idx, s_yielded, s_log, s_error>>

\* the state of one InterviewEngine
\* most calls made on one engine
MaxCalls == 3

VARIABLES
    history,        \* self.history: the Turns, each a dict with turn, question and
                    \* (once written) answer
    turn,           \* self.turn
    e_pc,           \* the method of the engine that is running
    e_question,     \* stream_answer: its question argument
    e_asked,        \* history: the question ask_question returned last, if any
    e_external,     \* history: that question was not the one ask_question returned last
    e_error,        \* the error the last method raised
    e_trace,        \* history: the calls made on the engine and how each ended
    e_for           \* history: for each Turn, the question its answer was generated
                    \* for, if it has an answer

engineVars == <<history, turn, e_pc, e_question, e_asked, e_external, e_error, e_trace,
                e_for>>

aiVars == <<ai_service, env, content, clients, genVars, streamVars, engineVars>>

\* the state of listen_stream; time is counted in ticks of 0.1 s
\* largest silence_timeout, in ticks
MaxSilence == 2
\* largest max_duration, in ticks
MaxDuration == 2
\* most recognizer outputs with text in one utterance
MaxEvents == 2
\* most audio frames waiting in the queue
MaxQueue == 2

\* queue.Queue(): maxsize is left at 0, which means no limit
QueueMaxSize == 0

\* q.get(timeout=0.1), in ticks
PollTicks == 1

\* the clock stops where every capture has ended
MaxTime == MaxDuration + PollTicks + MaxSilence

\* what the recognizers say: words, already trimmed, or nothing
Words == {<<"a">>, <<"b">>}

Heard == Words \cup {<<>>}

\* what a partial result can hold
HeardPartial == {<<"a">>, <<>>}

VARIABLES
    stt_service,       \* the stt_service argument
    stt_ok,            \* the availability probe of the variant selected:
                       \* _vosk_stt_available()[0], azure_stt_available()[0]
    silence_timeout,   \* argument, in ticks
    max_duration,      \* argument, in ticks
    now,               \* time.time()
    l_pc,              \* position of the generator
    start_time,
    last_text_time,
    final_text,
    q,                 \* q (vosk: audio frames), recognized_queue (azure: hypotheses)
    done,              \* azure: set by stop_cb
    waited,            \* how long the current q.get has blocked
    l_out,             \* the hypotheses yielded so far, in order
    l_error,           \* the error the generator raised
    segs,              \* history: the final segments the recognizer delivered
    events,            \* history: recognizer outputs with text so far
    arrived,           \* history: data was put on the queue since last_text_time was set
    resumed,           \* history: when the consumer last (re-)entered the loop
    failed,            \* history: the source or the recognizer failed in mid-capture
    l_fin,             \* history: for each hypothesis yielded, the accumulated final
                       \* text, trimmed, at the time it was made
    q_fin              \* history: the same for each hypothesis waiting in the queue

listenVars == <<stt_service, stt_ok, silence_timeout, max_duration, now, l_pc, start_time,
                last_text_time, final_text, q, done, waited, l_out, l_error, segs, events,
                arrived, resumed, failed, l_fin, q_fin>>

vars == <<aiVars, listenVars>>

Services == {"gemini", "openai", "other"}

Call(model, res, n) == [ev |-> "call", model |-> model, res |-> res, dur |-> 0, after |-> n]

Slept(d) == [ev |-> "sleep", model |-> "none", res |-> "none", dur |-> d, after |-> 0]

Terminal == {"returned", "raised"}

Idle(pc) == pc \in Terminal \cup {"idle"}

InitAI ==
    /\ ai_service \in Services
    /\ env \in SUBSET EnvKeys
    /\ content \in Contents
    /\ clients = {}
    /\ g_pc = "idle"
    /\ max_retries = 1
    /\ attempt = 0
    /\ g_log = <<>>
    /\ g_result = NoResponse
    /\ g_error = NoError
    /\ s_pc = "idle"
    /\ s_stream = "none"
    /\ s_idx = 1
    /\ s_yielded = <<>>
    /\ s_log = <<>>
    /\ s_error = NoError

\* InterviewEngine.__init__
InitEngine ==
    /\ history = <<>>
    /\ turn = 0
    /\ e_pc = "idle"
    /\ e_question = <<>>
    /\ e_asked = None
    /\ e_external = FALSE
    /\ e_error = NoError
    /\ e_trace = <<>>
    /\ e_for = <<>>

\* ------------------------------------------------- generate_with_fallback
\* tenths of a second in time.sleep(0.6 * attempt)
SleepBase == 6

\* a retry test that gives up one attempt early
ShouldRetryEarly(k, R) == k + 1 < R

\* `if attempt < max_retries` under `except ServerError`
ShouldRetry(k, R) == k < R

\* a delay that does not grow with the attempt
BackoffFlat(k) == SleepBase

\* `0.6 * attempt`
BackoffDelay(k) == SleepBase * k

\* a ClientError handler that falls through to the fallback
PrimaryClientErrorFallsThrough == "fallback"

\* `except ClientError as exc: raise ...` in the primary loop
PrimaryClientErrorTarget == "raised"

\* what escapes when the fallback call raises: only ClientError is caught
FallbackError(res, lowered) ==
    IF res = "ClientError" THEN _format_gemini_client_error(lowered) ELSE Native(res)

GenRaise(e) ==
    /\ g_pc' = "raised"
    /\ g_error' = e
    /\ UNCHANGED <<attempt, g_log, g_result, clients>>

GenReturn(r, ev) ==
    /\ g_pc' = "returned"
    /\ g_result' = r
    /\ g_log' = Append(g_log, ev)
    /\ UNCHANGED <<attempt, g_error>>

\* The calls are made one after the other.  A call starts with the frames of
\* the calls before it gone: of a generate_with_fallback call only the
\* response it returned is left, in the caller's hands.
StreamGone ==
    /\ s_pc' = "idle"
    /\ s_stream' = "none"
    /\ s_idx' = 1
    /\ s_yielded' = <<>>
    /\ s_log' = <<>>
    /\ s_error' = NoError

GenerateGone ==
    /\ g_pc' = "idle"
    /\ max_retries' = 1
    /\ attempt' = 0
    /\ g_log' = <<>>
    /\ g_error' = NoError
    /\ UNCHANGED g_result

\* the call: the dispatch on ai_service, up to the first provider
BeginGenerate(R) ==
    /\ Idle(g_pc) /\ Idle(s_pc)
    /\ max_retries' = R
    /\ attempt' = 1
    /\ g_log' = <<>>
    /\ g_result' = NoResponse
    /\ IF ai_service = "gemini" THEN g_pc' = "primary" /\ g_error' = NoError
       ELSE IF ai_service = "openai" THEN g_pc' = "openai" /\ g_error' = NoError
       ELSE g_pc' = "raised" /\ g_error' = [type |-> "ValueError", msg |-> "Unknown AI service"]
    /\ StreamGone
    /\ UNCHANGED <<ai_service, env, content, clients>>

\* generate_with_fallback called on its own, with any max_retries
StartGenerate ==
    /\ UNCHANGED <<listenVars, engineVars>>
    /\ \E R \in 1..MaxR : BeginGenerate(R)

\* one pass of the loop body: get_gemini_client().models.generate_content(PRIMARY_MODEL)
PrimaryAttempt ==
    /\ UNCHANGED <<listenVars, engineVars>>
    /\ g_pc = "primary"
    /\ UNCHANGED <<ai_service, env, content, max_retries, streamVars>>
    /\ IF get_gemini_client(env) # NoError
       THEN GenRaise(get_gemini_client(env))
       ELSE /\ clients' = clients \cup {"gemini"}
            /\ \/ GenReturn(GeminiResponse(PRIMARY_MODEL, content),
                            Call(PRIMARY_MODEL, "ok", 0))
               \/ /\ g_log' = Append(g_log, Call(PRIMARY_MODEL, "ServerError", 0))
                  /\ g_pc' = IF ShouldRetry(attempt, max_retries) THEN "sleep" ELSE "fallback"
                  /\ UNCHANGED <<attempt, g_result, g_error>>
               \/ \E lowered \in ClientMessages :
                    /\ g_log' = Append(g_log, Call(PRIMARY_MODEL, "ClientError", 0))
                    /\ g_pc' = PrimaryClientErrorTarget
                    /\ g_error' = IF PrimaryClientErrorTarget = "raised"
                                  THEN _format_gemini_client_error(lowered) ELSE NoError
                    /\ UNCHANGED <<attempt, g_result>>

\* time.sleep(0.6 * attempt), then the next value of the loop variable
Sleep ==
    /\ UNCHANGED <<listenVars, engineVars>>
    /\ g_pc = "sleep"
    /\ g_log' = Append(g_log, Slept(BackoffDelay(attempt)))
    /\ attempt' = attempt + 1
    /\ g_pc' = IF attempt + 1 <= max_retries THEN "primary" ELSE "fallback"
    /\ UNCHANGED <<ai_service, env, content, clients, max_retries, g_result, g_error, streamVars>>

\* after the loop: get_gemini_client().models.generate_content(FALLBACK_MODEL)
FallbackAttempt ==
    /\ UNCHANGED <<listenVars, engineVars>>
    /\ g_pc = "fallback"
    /\ UNCHANGED <<ai_service, env, content, max_retries, streamVars>>
    /\ IF get_gemini_client(env) # NoError
       THEN GenRaise(get_gemini_client(env))
       ELSE /\ clients' = clients \cup {"gemini"}
            /\ \/ GenReturn(GeminiResponse(FALLBACK_MODEL, content),
                            Call(FALLBACK_MODEL, "ok", 0))
               \/ \E res \in {"ServerError", "ClientError"}, lowered \in ClientMessages :
                    /\ g_log' = Append(g_log, Call(FALLBACK_MODEL, res, 0))
                    /\ g_pc' = "raised"
                    /\ g_error' = FallbackError(res, lowered)
                    /\ UNCHANGED <<attempt, g_result>>

\* the openai branch: get_openai_client().chat.completions.create(...)
OpenAIGenerate ==
    /\ UNCHANGED <<listenVars, engineVars>>
    /\ g_pc = "openai"
    /\ UNCHANGED <<ai_service, env, content, max_retries, streamVars>>
    /\ IF get_openai_client(env) # NoError
       THEN GenRaise(get_openai_client(env))
       ELSE /\ clients' = clients \cup {"openai"}
            /\ \/ GenReturn(OpenAIResponse(OPENAI_MODEL, content),
                            Call(OPENAI_MODEL, "ok", 0))
               \/ /\ g_log' = Append(g_log, Call(OPENAI_MODEL, "APIConnectionError", 0))
                  /\ g_pc' = "raised"
                  /\ g_error' = AIServiceError("OpenAI API connection error")
                  /\ UNCHANGED <<attempt, g_result>>
               \/ \E lowered \in StatusMessages :
                    /\ g_log' = Append(g_log, Call(OPENAI_MODEL, "APIStatusError", 0))
                    /\ g_pc' = "raised"
                    /\ g_error' = _format_openai_client_error(lowered)
                    /\ UNCHANGED <<attempt, g_result>>

\* --------------------------------------------------- stream_with_fallback
\* `if hasattr(chunk, "text") and chunk.text` (gemini),
\* `if chunk.choices[0].delta.content is not None` (openai)
ChunkYields(service, chunk) ==
    IF service = "gemini" THEN Truthy(chunk) ELSE IsSome(chunk)

\* the errors the provider's stream can raise while it is iterated
StreamErrors(service) ==
    IF service = "gemini" THEN {"ServerError", "ClientError"}
    ELSE {"APIConnectionError", "APIStatusError"}

\* a stream loop that turns to the fallback when the stream breaks
MidStreamSwitches == "open_fallback"

\* an error raised by `for chunk in stream` is caught nowhere
MidStreamTarget == "raised"

\* what escapes when opening the fallback stream raises, inside `except ServerError`
FallbackStreamError(res) == Native(res)

StreamRaise(e) ==
    /\ s_pc' = "raised"
    /\ s_error' = e
    /\ UNCHANGED <<s_stream, s_idx, s_yielded, s_log, clients>>

StreamOpened(model, ev) ==
    /\ s_pc' = "iter"
    /\ s_stream' = model
    /\ s_log' = Append(s_log, ev)
    /\ UNCHANGED <<s_idx, s_yielded, s_error>>

\* the first next() on the generator: the dispatch on ai_service
BeginStream ==
    /\ Idle(g_pc) /\ Idle(s_pc)
    /\ s_stream' = "none"
    /\ s_idx' = 1
    /\ s_yielded' = <<>>
    /\ s_log' = <<>>
    /\ IF ai_service = "gemini" THEN s_pc' = "open" /\ s_error' = NoError
       ELSE IF ai_service = "openai" THEN s_pc' = "open_openai" /\ s_error' = NoError
       ELSE s_pc' = "raised" /\ s_error' = [type |-> "ValueError", msg |-> "Unknown AI service"]
    /\ GenerateGone
    /\ UNCHANGED <<ai_service, env, content, clients>>

\* stream_with_fallback iterated on its own
StartStream ==
    /\ UNCHANGED <<listenVars, engineVars>>
    /\ BeginStream

\* get_gemini_client().models.generate_content_stream(PRIMARY_MODEL)
OpenPrimaryStream ==
    /\ UNCHANGED <<listenVars, engineVars>>
    /\ s_pc = "open"
    /\ UNCHANGED <<ai_service, env, content, genVars>>
    /\ IF get_gemini_client(env) # NoError
       THEN StreamRaise(get_gemini_client(env))
       ELSE /\ clients' = clients \cup {"gemini"}
            /\ \/ StreamOpened(PRIMARY_MODEL, Call(PRIMARY_MODEL, "ok", Len(s_yielded)))
               \/ /\ s_log' = Append(s_log, Call(PRIMARY_MODEL, "ServerError", Len(s_yielded)))
                  /\ s_pc' = "open_fallback"
                  /\ UNCHANGED <<s_stream, s_idx, s_yielded, s_error>>
               \/ \E lowered \in ClientMessages :
                    /\ s_log' = Append(s_log, Call(PRIMARY_MODEL, "ClientError", Len(s_yielded)))
                    /\ s_pc' = "raised"
                    /\ s_error' = _format_gemini_client_error(lowered)
                    /\ UNCHANGED <<s_stream, s_idx, s_yielded>>

\* under `except ServerError`: generate_content_stream(FALLBACK_MODEL)
OpenFallbackStream ==
    /\ UNCHANGED <<listenVars, engineVars>>
    /\ s_pc = "open_fallback"
    /\ UNCHANGED <<ai_service, env, content, genVars>>
    /\ IF get_gemini_client(env) # NoError
       THEN StreamRaise(get_gemini_client(env))
       ELSE /\ clients' = clients \cup {"gemini"}
            /\ \/ StreamOpened(FALLBACK_MODEL, Call(FALLBACK_MODEL, "ok", Len(s_yielded)))
               \/ \E res \in {"ServerError", "ClientError"} :
                    /\ s_log' = Append(s_log, Call(FALLBACK_MODEL, res, Len(s_yielded)))
                    /\ s_pc' = "raised"
                    /\ s_error' = FallbackStreamError(res)
                    /\ UNCHANGED <<s_stream, s_idx, s_yielded>>

\* the openai branch: chat.completions.create(..., stream=True)
OpenOpenAIStream ==
    /\ UNCHANGED <<listenVars, engineVars>>
    /\ s_pc = "open_openai"
    /\ UNCHANGED <<ai_service, env, content, genVars>>
    /\ IF get_openai_client(env) # NoError
       THEN StreamRaise(get_openai_client(env))
       ELSE /\ clients' = clients \cup {"openai"}
            /\ \/ StreamOpened(OPENAI_MODEL, Call(OPENAI_MODEL, "ok", Len(s_yielded)))
               \/ /\ s_log' = Append(s_log, Call(OPENAI_MODEL, "APIConnectionError", Len(s_yielded)))
                  /\ s_pc' = "raised"
                  /\ s_error' = AIServiceError("OpenAI API connection error")
                  /\ UNCHANGED <<s_stream, s_idx, s_yielded>>
               \/ \E lowered \in StatusMessages :
                    /\ s_log' = Append(s_log, Call(OPENAI_MODEL, "APIStatusError", Len(s_yielded)))
                    /\ s_pc' = "raised"
                    /\ s_error' = _format_openai_client_error(lowered)
                    /\ UNCHANGED <<s_stream, s_idx, s_yielded>>

\* `for chunk in stream`: the next chunk is yielded or skipped, or the stream ends
NextChunk ==
    /\ UNCHANGED <<listenVars, engineVars>>
    /\ s_pc = "iter"
    /\ UNCHANGED <<ai_service, env, content, clients, genVars, s_stream, s_log, s_error>>
    /\ IF s_idx > Len(content)
       THEN s_pc' = "returned" /\ UNCHANGED <<s_idx, s_yielded>>
       ELSE /\ s_idx' = s_idx + 1
            /\ IF ChunkYields(ai_service, content[s_idx])
               THEN /\ s_yielded' = Append(s_yielded,
                                      [text |-> TextOf(content[s_idx]), model |-> s_stream])
                    /\ s_pc' = "yielded"
               ELSE UNCHANGED <<s_pc, s_yielded>>

\* `for chunk in stream`: the provider's stream raises instead
StreamFails ==
    /\ UNCHANGED <<listenVars, engineVars>>
    /\ s_pc = "iter"
    /\ \E e \in StreamErrors(ai_service) :
         /\ s_pc' = MidStreamTarget
         /\ s_error' = IF MidStreamTarget = "raised" THEN Native(e) ELSE NoError
    /\ UNCHANGED <<ai_service, env, content, clients, genVars, s_stream, s_idx, s_yielded, s_log>>

\* the caller asks for the next chunk
ResumeStream ==
    /\ UNCHANGED <<listenVars, engineVars>>
    /\ s_pc = "yielded"
    /\ s_pc' = "iter"
    /\ UNCHANGED <<ai_service, env, content, clients, genVars, s_stream, s_idx, s_yielded, s_log, s_error>>

NextAI ==
    \/ StartGenerate
    \/ PrimaryAttempt
    \/ Sleep
    \/ FallbackAttempt
    \/ OpenAIGenerate
    \/ StartStream
    \/ OpenPrimaryStream
    \/ OpenFallbackStream
    \/ OpenOpenAIStream
    \/ NextChunk
    \/ StreamFails
    \/ ResumeStream

\* ---------------------------------------------------------- InterviewEngine
\* The methods of the engine run one at a time.  A method that calls
\* generate_with_fallback or iterates stream_with_fallback waits while the
\* steps of that call are taken, and goes on when the call has ended.

libVars == <<ai_service, env, content, clients, genVars, streamVars>>

\* the default of max_retries, which ask_question leaves in place
DefaultRetries == 2

\* suggest_follow_up passes max_retries=1
FollowUpRetries == 1

\* a question from outside the engine (app.py: the text captured or typed)
Questions == { <<"q">> }

Ended(call, end) == [call |-> call, end |-> end]

\* `full_answer += chunk` over the chunks yielded so far
FullAnswer == Concat([i \in 1..Len(s_yielded) |-> s_yielded[i].text])

\* a counter that is not advanced
NextTurnSame(t) == t

\* `self.turn += 1`
NextTurn(t) == t + 1

\* ask_question: self.history.append({"turn": self.turn, "question": question, ...})
AppendQuestion(h, t, question) ==
    Append(h, [turn |-> t, question |-> question, answer |-> None])

\* an answer that always makes its own Turn
WriteAnswerAppends(h, t, question, answer) ==
    Append(h, [turn |-> t, question |-> question, answer |-> Some(answer)])

\* stream_answer: `if self.history: self.history[-1]["answer"] = answer`,
\* `else: self.history.append({...})`
WriteAnswer(h, t, question, answer) ==
    IF h # <<>>
    THEN [h EXCEPT ![Len(h)].answer = Some(answer)]
    ELSE Append(h, [turn |-> t, question |-> question, answer |-> Some(answer)])

\* a stream_answer that writes what it has when it is cut short
PartialWritten(h, t, question, partial) == WriteAnswer(h, t, question, Strip(partial))

\* stream_answer: an exception of the stream, or the generator's close, leaves
\* the `for` loop before the lines that write the ledger
LedgerAfterFailure(h, t, question, partial) == h

\* the question of the prompt an answer came from, kept beside the Turn the
\* answer is written on
AnsweredFor(f, h, question) ==
    IF h # <<>>
    THEN [f EXCEPT ![Len(f)] = Some(question)]
    ELSE Append(f, Some(question))

\* stream_answer: `self.turn += 1` is in the else branch only
TurnAfterAnswer(h, t) == IF h # <<>> THEN t ELSE NextTurn(t)

EngineRaise(call, e) ==
    /\ e_pc' = "idle"
    /\ e_error' = e
    /\ e_trace' = Append(e_trace, Ended(call, "raised"))
    /\ UNCHANGED <<history, turn, e_question, e_asked, e_external, e_for>>

EngineReturn(call) ==
    /\ e_pc' = "idle"
    /\ e_trace' = Append(e_trace, Ended(call, "returned"))
    /\ UNCHANGED <<e_question, e_external, e_error>>

CanCall == e_pc = "idle" /\ Len(e_trace) < MaxCalls

\* ask_question(), up to the call of generate_with_fallback(prompt, self.ai_service)
AskQuestion ==
    /\ UNCHANGED listenVars
    /\ CanCall
    /\ BeginGenerate(DefaultRetries)
    /\ e_pc' = "ask_question"
    /\ e_error' = NoError
    /\ UNCHANGED <<history, turn, e_question, e_asked, e_external, e_trace, e_for>>

\* ask_question(), from the return of generate_with_fallback: extract_text,
\* the new Turn, the counter
AskReturn ==
    /\ UNCHANGED <<listenVars, libVars>>
    /\ e_pc = "ask_question" /\ g_pc \in Terminal
    /\ IF g_pc = "raised"
       THEN EngineRaise("ask_question", g_error)
       ELSE LET question == extract_text(g_result) IN
            IF ~question.ok
            THEN EngineRaise("ask_question", [type |-> question.err, msg |-> "No text content found"])
            ELSE /\ history' = AppendQuestion(history, turn, question.text)
                 /\ turn' = NextTurn(turn)
                 /\ e_asked' = Some(question.text)
                 /\ e_for' = Append(e_for, None)
                 /\ EngineReturn("ask_question")

\* the first next() on stream_answer(question): the prompt and the first step
\* of stream_with_fallback
StreamAnswer ==
    /\ UNCHANGED listenVars
    /\ CanCall
    /\ \E ext \in BOOLEAN :
         /\ e_external' = ext
         /\ IF ext THEN e_question' \in Questions
            ELSE IsSome(e_asked) /\ e_question' = TextOf(e_asked)
    /\ BeginStream
    /\ e_pc' = "stream_answer"
    /\ e_error' = NoError
    /\ UNCHANGED <<history, turn, e_asked, e_trace, e_for>>

\* stream_answer, when stream_with_fallback has ended: the error goes through,
\* or the answer is written to the ledger
AnswerReturn ==
    /\ UNCHANGED <<listenVars, libVars>>
    /\ e_pc = "stream_answer" /\ s_pc \in Terminal
    /\ IF s_pc = "raised"
       THEN /\ history' = LedgerAfterFailure(history, turn, e_question, FullAnswer)
            /\ e_pc' = "idle"
            /\ e_error' = s_error
            /\ e_trace' = Append(e_trace, Ended("stream_answer", "raised"))
            /\ UNCHANGED <<turn, e_question, e_asked, e_external, e_for>>
       ELSE /\ history' = WriteAnswer(history, turn, e_question, Strip(FullAnswer))
            /\ turn' = TurnAfterAnswer(history, turn)
            /\ e_for' = AnsweredFor(e_for, history, e_question)
            /\ EngineReturn("stream_answer")
            /\ UNCHANGED e_asked

\* the caller drops the generator while it is suspended at `yield chunk`
Abandon ==
    /\ UNCHANGED listenVars
    /\ e_pc = "stream_answer" /\ s_pc = "yielded"
    /\ StreamGone
    /\ e_pc' = "idle"
    /\ e_trace' = Append(e_trace, Ended("stream_answer", "abandoned"))
    /\ history' = LedgerAfterFailure(history, turn, e_question, FullAnswer)
    /\ UNCHANGED <<ai_service, env, content, clients, genVars>>
    /\ UNCHANGED <<turn, e_question, e_asked, e_external, e_error, e_for>>

\* suggest_follow_up(question, answer), up to the call of generate_with_fallback
SuggestFollowUp ==
    /\ UNCHANGED listenVars
    /\ CanCall
    /\ BeginGenerate(FollowUpRetries)
    /\ e_pc' = "suggest_follow_up"
    /\ e_error' = NoError
    /\ UNCHANGED <<history, turn, e_question, e_asked, e_external, e_trace, e_for>>

\* suggest_follow_up, from the return of generate_with_fallback: extract_text
FollowUpReturn ==
    /\ UNCHANGED <<listenVars, libVars>>
    /\ e_pc = "suggest_follow_up" /\ g_pc \in Terminal
    /\ IF g_pc = "raised"
       THEN EngineRaise("suggest_follow_up", g_error)
       ELSE LET text == extract_text(g_result) IN
            IF ~text.ok
            THEN EngineRaise("suggest_follow_up", [type |-> text.err, msg |-> "No text content found"])
            ELSE /\ EngineReturn("suggest_follow_up")
                 /\ UNCHANGED <<history, turn, e_asked, e_for>>

NextEngine ==
    \/ AskQuestion
    \/ AskReturn
    \/ StreamAnswer
    \/ AnswerReturn
    \/ Abandon
    \/ SuggestFollowUp
    \/ FollowUpReturn
    \/ PrimaryAttempt
    \/ Sleep
    \/ FallbackAttempt
    \/ OpenAIGenerate
    \/ OpenPrimaryStream
    \/ OpenFallbackStream
    \/ OpenOpenAIStream
    \/ NextChunk
    \/ StreamFails
    \/ ResumeStream

\* ------------------------------------------------------------ listen_stream
\* Computation takes no time; time passes where the code blocks: in
\* q.get(timeout=0.1) on an empty queue, and while the generator is suspended
\* at a yield and its caller works on the hypothesis (app.py sleeps on each).

InitListen ==
    /\ stt_service \in {"vosk", "azure"}
    /\ stt_ok \in BOOLEAN
    /\ silence_timeout \in 1..MaxSilence
    /\ max_duration \in 1..MaxDuration
    /\ now = 0
    /\ l_pc = "start"
    /\ start_time = 0
    /\ last_text_time = 0
    /\ final_text = <<>>
    /\ q = <<>>
    /\ done = FALSE
    /\ waited = 0
    /\ l_out = <<>>
    /\ l_error = NoError
    /\ segs = <<>>
    /\ events = 0
    /\ arrived = FALSE
    /\ resumed = 0
    /\ failed = FALSE
    /\ l_fin = <<>>
    /\ q_fin = <<>>

\* a loop that has lost its duration test
CapNever(t, start, D) == FALSE

\* `if time.time() - start_time > max_duration`
CapExceeded(t, start, D) == t - start > D

\* a silence test against twice the timeout
SilenceTwice(t, last, S) == t - last > 2 * S

\* `if time.time() - last_text_time > silence_timeout`
SilenceExceeded(t, last, S) == t - last > S

\* an accumulation that forgets the separator
AppendNoSpace(final, text) == final \o text

\* `final_text += " " + text`
AppendSegment(final, text) == final \o <<" ">> \o text

\* a partial result that is kept
PersistPartial(final, partial) == final \o <<" ">> \o partial

\* a partial result is reported and final_text left as it is
FinalAfterPartial(final, partial) == final

\* Queue.put blocks on a full queue; a queue without maxsize is never full
PutBlocks(queue) == QueueMaxSize > 0 /\ Len(queue) >= QueueMaxSize

\* what the speech SDK does when it is given credentials that are not there:
\* SpeechConfig(...) raises, or the session is started all the same
SdkOutcomes(ok) == IF ok THEN {"started"} ELSE {"started", "sdk_error"}

\* `(final_text + " " + partial).strip()`
WithPartial(final, partial) == Strip(final \o <<" ">> \o partial)

\* the audio stream is open, or the recognition session running
Capturing == l_pc \in {"top", "wait", "yield"} \/ (stt_service = "azure" /\ l_pc = "after")

\* the body up to the loop: the availability test (vosk only; the azure
\* variant does not call azure_stt_available), the recognizer and the two
\* timestamps
Begin ==
    /\ UNCHANGED <<aiVars, l_fin, q_fin>>
    /\ l_pc = "start"
    /\ IF stt_service = "vosk"
       THEN IF ~stt_ok
            THEN /\ l_pc' = "raised"
                 /\ l_error' = [type |-> "RuntimeError", msg |-> "Live STT unavailable"]
            ELSE /\ l_pc' = "top"
                 /\ UNCHANGED l_error
       ELSE \E outcome \in SdkOutcomes(stt_ok) :
              IF outcome = "sdk_error"
              THEN /\ l_pc' = "raised"
                   /\ l_error' = [type |-> "ValueError", msg |-> "SpeechConfig"]
              ELSE /\ l_pc' = "top"
                   /\ UNCHANGED l_error
    /\ start_time' = now
    /\ last_text_time' = now
    /\ resumed' = now
    /\ UNCHANGED <<stt_service, stt_ok, silence_timeout, max_duration, now, final_text, q,
                   done, waited, l_out, segs, events, arrived, failed>>

\* time passes while q.get blocks on an empty queue or the caller holds a hypothesis
Tick ==
    /\ UNCHANGED <<aiVars, l_fin, q_fin>>
    /\ now < MaxTime
    /\ \/ l_pc = "wait" /\ q = <<>> /\ waited < PollTicks
       \/ l_pc = "yield"
    /\ now' = now + 1
    /\ waited' = IF l_pc = "wait" THEN waited + 1 ELSE waited
    /\ UNCHANGED <<stt_service, stt_ok, silence_timeout, max_duration, l_pc, start_time,
                   last_text_time, final_text, q, done, l_out, l_error, segs, events,
                   arrived, resumed, failed>>

\* vosk: callback(indata, frames, time_info, status) puts one frame
Callback ==
    /\ UNCHANGED <<aiVars, l_fin, q_fin>>
    /\ stt_service = "vosk" /\ l_pc \in {"top", "wait", "yield"}
    /\ ~PutBlocks(q)
    /\ Len(q) < MaxQueue
    /\ q' = Append(q, "frame")
    /\ arrived' = TRUE
    /\ UNCHANGED <<stt_service, stt_ok, silence_timeout, max_duration, now, l_pc, start_time,
                   last_text_time, final_text, done, waited, l_out, l_error, segs, events,
                   resumed, failed>>

\* azure: recognized_cb(evt), on the SDK's thread
RecognizedCb ==
    /\ UNCHANGED <<aiVars, l_fin>>
    /\ stt_service = "azure" /\ Capturing /\ ~done
    /\ \E text \in Heard :
         IF text # <<>>
         THEN /\ events < MaxEvents
              /\ ~PutBlocks(q)
              /\ final_text' = AppendSegment(final_text, text)
              /\ q' = Append(q, Strip(AppendSegment(final_text, text)))
              /\ q_fin' = Append(q_fin, Strip(AppendSegment(final_text, text)))
              /\ segs' = Append(segs, text)
              /\ events' = events + 1
              /\ arrived' = TRUE
         ELSE UNCHANGED <<final_text, q, q_fin, segs, events, arrived>>
    /\ UNCHANGED <<stt_service, stt_ok, silence_timeout, max_duration, now, l_pc, start_time,
                   last_text_time, done, waited, l_out, l_error, resumed, failed>>

\* azure: recognizing_cb(evt), on the SDK's thread
RecognizingCb ==
    /\ UNCHANGED <<aiVars, l_fin>>
    /\ stt_service = "azure" /\ Capturing /\ ~done
    /\ \E text \in HeardPartial :
         IF text # <<>>
         THEN /\ events < MaxEvents
              /\ ~PutBlocks(q)
              /\ q' = Append(q, WithPartial(final_text, text))
              /\ q_fin' = Append(q_fin, Strip(final_text))
              /\ final_text' = FinalAfterPartial(final_text, text)
              /\ events' = events + 1
              /\ arrived' = TRUE
         ELSE UNCHANGED <<q, q_fin, final_text, events, arrived>>
    /\ UNCHANGED <<stt_service, stt_ok, silence_timeout, max_duration, now, l_pc, start_time,
                   last_text_time, done, waited, l_out, l_error, segs, resumed, failed>>

\* azure: stop_cb(evt), on session_stopped or on canceled (an error of the service)
StopCb ==
    /\ UNCHANGED <<aiVars, l_fin, q_fin>>
    /\ stt_service = "azure" /\ Capturing /\ ~done
    /\ done' = TRUE
    /\ \E canceled \in BOOLEAN : failed' = (failed \/ canceled)
    /\ UNCHANGED <<stt_service, stt_ok, silence_timeout, max_duration, now, l_pc, start_time,
                   last_text_time, final_text, q, waited, l_out, l_error, segs, events,
                   arrived, resumed>>

\* the head of the loop: `while not done` (azure), then the duration cap
LoopTop ==
    /\ UNCHANGED <<aiVars, l_fin, q_fin>>
    /\ l_pc = "top"
    /\ IF (stt_service = "azure" /\ done) \/ CapExceeded(now, start_time, max_duration)
       THEN l_pc' = "after"
       ELSE l_pc' = "wait"
    /\ waited' = 0
    /\ UNCHANGED <<stt_service, stt_ok, silence_timeout, max_duration, now, start_time,
                   last_text_time, final_text, q, done, l_out, l_error, segs, events,
                   arrived, resumed, failed>>

\* q.get(timeout=0.1) raises queue.Empty: the silence test
GetEmpty ==
    /\ UNCHANGED <<aiVars, l_fin, q_fin>>
    /\ l_pc = "wait" /\ q = <<>> /\ waited = PollTicks
    /\ IF SilenceExceeded(now, last_text_time, silence_timeout)
       THEN l_pc' = "after"
       ELSE l_pc' = "top"
    /\ UNCHANGED <<stt_service, stt_ok, silence_timeout, max_duration, now, start_time,
                   last_text_time, final_text, q, done, waited, l_out, l_error, segs, events,
                   arrived, resumed, failed>>

\* vosk: q.get returns a frame and the recognizer takes it: AcceptWaveform is
\* true and Result() has the text, or false and PartialResult() has it, or
\* AcceptWaveform raises ("Failed to process waveform")
GetFrame ==
    /\ UNCHANGED <<aiVars, q_fin>>
    /\ stt_service = "vosk" /\ l_pc = "wait" /\ q # <<>>
    /\ q' = Tail(q)
    /\ UNCHANGED <<stt_service, stt_ok, silence_timeout, max_duration, now, start_time, done,
                   waited, resumed>>
    /\ \/ \E t \in Heard :
            LET text == Strip(t) IN
            IF text # <<>>
            THEN /\ events < MaxEvents
                 /\ final_text' = AppendSegment(final_text, text)
                 /\ last_text_time' = now
                 /\ l_out' = Append(l_out, Strip(AppendSegment(final_text, text)))
                 /\ l_fin' = Append(l_fin, Strip(AppendSegment(final_text, text)))
                 /\ l_pc' = "yield"
                 /\ segs' = Append(segs, text)
                 /\ events' = events + 1
                 /\ arrived' = FALSE
                 /\ UNCHANGED <<l_error, failed>>
            ELSE /\ l_pc' = "top"
                 /\ UNCHANGED <<final_text, last_text_time, l_out, l_fin, segs, events,
                                arrived, l_error, failed>>
       \/ \E p \in HeardPartial :
            LET partial == Strip(p) IN
            IF partial # <<>>
            THEN /\ events < MaxEvents
                 /\ last_text_time' = now
                 /\ l_out' = Append(l_out, WithPartial(final_text, partial))
                 /\ l_fin' = Append(l_fin, Strip(final_text))
                 /\ final_text' = FinalAfterPartial(final_text, partial)
                 /\ l_pc' = "yield"
                 /\ events' = events + 1
                 /\ arrived' = FALSE
                 /\ UNCHANGED <<segs, l_error, failed>>
            ELSE /\ l_pc' = "top"
                 /\ UNCHANGED <<final_text, last_text_time, l_out, l_fin, segs, events,
                                arrived, l_error, failed>>
       \/ /\ l_pc' = "raised"
          /\ l_error' = [type |-> "Exception", msg |-> "Failed to process waveform"]
          /\ failed' = TRUE
          /\ UNCHANGED <<final_text, last_text_time, l_out, l_fin, segs, events, arrived>>

\* azure: recognized_queue.get returns a hypothesis, which is yielded
GetHypothesis ==
    /\ UNCHANGED aiVars
    /\ stt_service = "azure" /\ l_pc = "wait" /\ q # <<>>
    /\ q' = Tail(q)
    /\ l_out' = Append(l_out, Head(q))
    /\ q_fin' = Tail(q_fin)
    /\ l_fin' = Append(l_fin, Head(q_fin))
    /\ l_pc' = "yield"
    /\ UNCHANGED <<stt_service, stt_ok, silence_timeout, max_duration, now, start_time,
                   last_text_time, final_text, done, waited, l_error, segs, events, arrived,
                   resumed, failed>>

\* the caller asks for the next hypothesis; azure sets last_text_time only now
Resume ==
    /\ UNCHANGED <<aiVars, l_fin, q_fin>>
    /\ l_pc = "yield"
    /\ l_pc' = "top"
    /\ resumed' = now
    /\ IF stt_service = "azure"
       THEN last_text_time' = now /\ arrived' = FALSE
       ELSE UNCHANGED <<last_text_time, arrived>>
    /\ UNCHANGED <<stt_service, stt_ok, silence_timeout, max_duration, now, start_time,
                   final_text, q, done, waited, l_out, l_error, segs, events, failed>>

\* after the loop: the stream is closed (vosk) or recognition stopped (azure),
\* and `if final_text.strip(): yield final_text.strip()`
Terminate ==
    /\ UNCHANGED <<aiVars, q_fin>>
    /\ l_pc = "after"
    /\ IF Strip(final_text) # <<>>
       THEN /\ l_out' = Append(l_out, Strip(final_text))
            /\ l_fin' = Append(l_fin, Strip(final_text))
            /\ l_pc' = "yield_term"
       ELSE l_pc' = "done" /\ UNCHANGED <<l_out, l_fin>>
    /\ UNCHANGED <<stt_service, stt_ok, silence_timeout, max_duration, now, start_time,
                   last_text_time, final_text, q, done, waited, l_error, segs, events,
                   arrived, resumed, failed>>

\* the caller asks once more and the generator returns
Finish ==
    /\ UNCHANGED <<aiVars, l_fin, q_fin>>
    /\ l_pc = "yield_term"
    /\ l_pc' = "done"
    /\ UNCHANGED <<stt_service, stt_ok, silence_timeout, max_duration, now, start_time,
                   last_text_time, final_text, q, done, waited, l_out, l_error, segs, events,
                   arrived, resumed, failed>>

NextListen ==
    \/ Begin
    \/ Tick
    \/ Callback
    \/ RecognizedCb
    \/ RecognizingCb
    \/ StopCb
    \/ LoopTop
    \/ GetEmpty
    \/ GetFrame
    \/ GetHypothesis
    \/ Resume
    \/ Terminate
    \/ Finish

\* ---------------------------------------------------------- specifications
Init == InitAI /\ InitListen /\ InitEngine

\* the generation pipeline, with no capture running
AIOnly ==
    /\ stt_service = "vosk" /\ stt_ok /\ silence_timeout = 1 /\ max_duration = 1

InitSpec == Init /\ AIOnly

Next == NextAI

Spec == InitSpec /\ [][Next]_vars

\* one capture, with no generation call running
CaptureOnly ==
    /\ ai_service = "gemini" /\ env = EnvKeys /\ content = <<>>

InitCapture == Init /\ CaptureOnly

NextCapture == NextListen

SpecListen == InitCapture /\ [][NextCapture]_vars

\* one session of an engine, with no capture running and the credentials in
\* place; the provider's reply is short: at most one chunk, or the two chunks
\* "a", "a"
EngineOnly ==
    /\ env = EnvKeys
    /\ Len(content) <= 1 \/ content = << Some(<<"a">>), Some(<<"a">>) >>

InitEngineSpec == InitSpec /\ EngineOnly

SpecEngine == InitEngineSpec /\ [][NextEngine]_vars

\* ------------------------------------------------------------- properties
CallsTo(log, model) == SelectSeq(log, LAMBDA e : e.ev = "call" /\ e.model = model)

AllServerError(calls, n) == \A i \in 1..n : calls[i].res = "ServerError"

YieldedTexts == [i \in 1..Len(s_yielded) |-> s_yielded[i].text]

\* C1: generate_with_fallback on gemini with max_retries = R: R-1 transient
\* failures of the primary and then a success return the primary's response
\* and never invoke the fallback; R transient failures in a row mean exactly R
\* primary calls, then exactly one fallback call, whose response is what is
\* returned; and the fallback is invoked in no other case.
ThmC1 ==
    LET prim == CallsTo(g_log, PRIMARY_MODEL)
        fb == CallsTo(g_log, FALLBACK_MODEL)
        R == max_retries
    IN  (ai_service = "gemini" /\ g_pc \in Terminal) =>
          /\ (Len(prim) = R /\ AllServerError(prim, R - 1) /\ prim[R].res = "ok")
               => /\ g_pc = "returned"
                  /\ g_result = GeminiResponse(PRIMARY_MODEL, content)
                  /\ fb = <<>>
          /\ (Len(prim) >= R /\ AllServerError(prim, R))
               => /\ Len(prim) = R
                  /\ Len(fb) = 1
                  /\ g_log[Len(g_log)] = fb[1]
                  /\ (fb[1].res = "ok") = (g_pc = "returned")
                  /\ g_pc = "returned" => g_result = GeminiResponse(FALLBACK_MODEL, content)
          /\ fb # <<>> => Len(prim) = R /\ AllServerError(prim, R)

WitC1 ==
    /\ ai_service = "gemini" /\ g_pc = "returned" /\ max_retries = 2
    /\ Len(CallsTo(g_log, PRIMARY_MODEL)) = 2
    /\ AllServerError(CallsTo(g_log, PRIMARY_MODEL), 2)
    /\ g_result = GeminiResponse(FALLBACK_MODEL, content)

\* C2 as claimed: after a ClientError of the primary, the fallback is still
\* attempted and its result returned.
OrigC2 ==
    LET prim == CallsTo(g_log, PRIMARY_MODEL)
        fb == CallsTo(g_log, FALLBACK_MODEL)
    IN  (ai_service = "gemini" /\ g_pc \in Terminal
           /\ \E i \in 1..Len(prim) : prim[i].res = "ClientError")
          => Len(fb) = 1 /\ (fb[1].res = "ok" => g_pc = "returned")

\* C2, amended: a ClientError of the primary ends the call at once: the
\* fallback is not attempted, nothing more is called or slept, and the error
\* raised is the AIServiceError that _format_gemini_client_error builds.
ThmC2 ==
    LET prim == CallsTo(g_log, PRIMARY_MODEL)
        fb == CallsTo(g_log, FALLBACK_MODEL)
    IN  (ai_service = "gemini" /\ \E i \in 1..Len(prim) : prim[i].res = "ClientError")
          => /\ g_pc = "raised"
             /\ g_error.type = "AIServiceError"
             /\ fb = <<>>
             /\ g_log[Len(g_log)].res = "ClientError"

WitC2 ==
    /\ ai_service = "gemini" /\ g_pc = "raised"
    /\ Len(g_log) = 3
    /\ g_log[3].res = "ClientError"
    /\ g_error = AIServiceError("Gemini API key is invalid")

\* C3 as claimed: whatever escapes generate_with_fallback or
\* stream_with_fallback on a configured service is an AIServiceError, never an
\* error type of the provider's library.
ClaimC3 ==
    ai_service \in {"gemini", "openai"} =>
      /\ g_pc = "raised" => g_error.type = "AIServiceError"
      /\ s_pc = "raised" => s_error.type = "AIServiceError"

\* C4: with the credential of the selected provider absent, both calls raise
\* the configuration error naming the variable, and no provider call, retry,
\* backoff sleep or fallback attempt is made.
ThmC4 ==
    LET missing == IF ai_service = "gemini" THEN "GEMINI_API_KEY" ELSE "OPENAI_API_KEY"
        expected == IF ai_service = "gemini"
                    THEN AIServiceError("GEMINI_API_KEY is missing")
                    ELSE AIServiceError("OPENAI_API_KEY is missing")
    IN  (ai_service \in {"gemini", "openai"} /\ missing \notin env) =>
          /\ g_log = <<>> /\ s_log = <<>> /\ s_yielded = <<>>
          /\ g_pc \notin {"sleep", "fallback", "returned"}
          /\ s_pc \notin {"open_fallback", "iter", "yielded", "returned"}
          /\ g_pc = "raised" => g_error = expected
          /\ s_pc = "raised" => s_error = expected

WitC4 ==
    /\ ai_service = "gemini" /\ "GEMINI_API_KEY" \notin env
    /\ g_pc = "raised"
    /\ g_error = AIServiceError("GEMINI_API_KEY is missing")

\* C5: in one stream_with_fallback call every chunk yielded comes from the one
\* stream that was opened; the fallback's stream is opened only when opening
\* the primary's failed, before any chunk; once a chunk is out, no provider is
\* invoked again and a failure ends the call with that error.
ThmC5 ==
    /\ \A i \in 1..Len(s_yielded) : s_yielded[i].model = s_stream
    /\ \A i \in 1..Len(s_log) : s_log[i].after = 0
    /\ Len(SelectSeq(s_log, LAMBDA e : e.res = "ok")) <= 1
    /\ s_stream = FALLBACK_MODEL =>
         s_log = << Call(PRIMARY_MODEL, "ServerError", 0), Call(FALLBACK_MODEL, "ok", 0) >>
    /\ s_yielded # <<>> => s_pc \in {"iter", "yielded", "returned", "raised"}
    /\ (s_pc = "raised" /\ s_yielded # <<>>) => s_error.type \in StreamErrors(ai_service)
    /\ s_pc = "returned" => s_idx = Len(content) + 1

WitC5 ==
    /\ s_pc = "raised" /\ s_stream = PRIMARY_MODEL
    /\ Len(s_yielded) = 1 /\ Len(content) = 2
    /\ s_error = Native("ServerError")

\* C6 as claimed: for a reply that carries text, the text of the non-streaming
\* path (extract_text of what generate_with_fallback returns) is the
\* concatenation of the chunks of the streaming path.
ClaimC6 ==
    (g_result.model # "none" /\ s_pc = "returned" /\ Concat(PartTexts(content)) # <<>>)
      => extract_text(g_result) = Ok(Concat(YieldedTexts))

\* " ".join(ss)
RECURSIVE JoinSegs(_)
JoinSegs(ss) ==
    IF ss = <<>> THEN <<>>
    ELSE IF Len(ss) = 1 THEN Head(ss)
    ELSE Head(ss) \o <<" ">> \o JoinSegs(Tail(ss))

Max(a, b) == IF a >= b THEN a ELSE b

LastOut == l_out[Len(l_out)]

\* C7: in either backend, when the utterance is over, the last hypothesis
\* yielded is the final segments the recognizer delivered, joined by single
\* spaces in arrival order and trimmed, whether or not their intermediate
\* hypotheses were consumed.
ThmC7 ==
    (l_pc = "done" /\ segs # <<>>) =>
      /\ l_out # <<>>
      /\ LastOut = Strip(JoinSegs(segs))

WitC7 ==
    /\ stt_service = "azure" /\ l_pc = "done"
    /\ segs = << <<"b">>, <<"a">> >>
    /\ l_out = << <<"b", " ", "a">> >>
    /\ Len(q) = 2

\* C8 as claimed: an error of the audio source or the recognizer in the middle
\* of a capture that has accumulated final text is not propagated; the
\* utterance ends and that text is the terminal element.
ClaimC8 ==
    (failed /\ Strip(final_text) # <<>>) =>
      /\ l_pc # "raised"
      /\ l_pc = "done" => (l_out # <<>> /\ LastOut = Strip(final_text))

\* C9 as claimed: once the capture loop is over, no more than max_duration
\* has elapsed since capture start.
OrigC9 ==
    l_pc \in {"after", "yield_term", "done"} => now - start_time <= max_duration

\* C9, amended: the loop ends at its first loop-top test after max_duration
\* has elapsed: no wait on the queue begins later than max_duration after
\* capture start, and none lasts beyond max_duration plus one poll interval.
ThmC9 ==
    l_pc = "wait" =>
      /\ (now - waited) - start_time <= max_duration
      /\ now - start_time <= max_duration + PollTicks

WitC9 ==
    /\ stt_service = "vosk" /\ l_pc = "after"
    /\ Len(l_out) = 2 /\ q # <<>>
    /\ now - start_time = max_duration + 1
    /\ ~SilenceExceeded(now, last_text_time, silence_timeout)

\* C10 as claimed: while no data has arrived since the last hypothesis, the
\* loop is not waiting on the queue later than one poll interval after
\* last_text_time + silence_timeout.
OrigC10 ==
    (l_pc = "wait" /\ ~arrived) =>
      now <= last_text_time + silence_timeout + PollTicks

\* C10, amended: while no data has arrived since the last hypothesis, the loop
\* is not waiting on the queue later than one poll interval after the later of
\* last_text_time + silence_timeout and the moment its caller let it resume.
ThmC10 ==
    (l_pc = "wait" /\ ~arrived) =>
      now <= Max(last_text_time + silence_timeout, resumed) + PollTicks

WitC10 ==
    /\ l_pc = "after" /\ ~arrived /\ ~done /\ l_out # <<>>
    /\ SilenceExceeded(now, last_text_time, silence_timeout)
    /\ waited = PollTicks
    /\ resumed > last_text_time + silence_timeout

LastCall == e_trace[Len(e_trace)]

ClaimC12 ==
    [][ (e_pc = "stream_answer" /\ e_external /\ e_pc' = "idle"
           /\ e_trace' = Append(e_trace, Ended("stream_answer", "returned")))
          => /\ history' = Append(history, [turn |-> turn, question |-> e_question,
                                            answer |-> Some(Strip(FullAnswer))])
             /\ turn' = turn + 1 ]_vars

\* C13: in every step of a session the indices of the ledger stay strictly
\* increasing in ledger order, no Turn is removed and none changes its index
\* (a step that overwrites an answer included), and every index in the ledger
\* is below the counter, so that the next one assigned is new.
ThmC13 ==
    [][ /\ \A i, j \in 1..Len(history') : i < j => history'[i].turn < history'[j].turn
        /\ Len(history') >= Len(history)
        /\ \A i \in 1..Len(history) : history'[i].turn = history[i].turn
        /\ \A i \in 1..Len(history') : history'[i].turn < turn' ]_vars

WitC13 ==
    /\ e_pc = "idle" /\ Len(e_trace) = 3
    /\ Len(history) = 2 /\ turn = 2
    /\ history[1].answer = None /\ IsSome(history[2].answer)

\* C16 as claimed: when ask_question or suggest_follow_up fails on gemini for
\* want of text in a reply, the reply of the primary was not the last thing
\* tried: the call went on to the fallback.
ClaimC16 ==
    (ai_service = "gemini" /\ e_pc = "idle" /\ e_trace # <<>>
       /\ LastCall.call \in {"ask_question", "suggest_follow_up"}
       /\ LastCall.end = "raised" /\ e_error.type = "ValueError")
      => g_log[Len(g_log)].model = FALLBACK_MODEL

Sleeps(log) == SelectSeq(log, LAMBDA e : e.ev = "sleep")

\* how many of the first i entries of the log are calls of the primary
PrimaryCallsUpTo(log, i) == Len(CallsTo(SubSeq(log, 1, i), PRIMARY_MODEL))

\* C14: in generate_with_fallback on gemini with max_retries = R, the k-th
\* transient failure of the primary is followed by a sleep of SleepBase * k and
\* then the next attempt when k < R, and by the fallback, with no sleep, when
\* k = R; nothing else sleeps; so when the fallback is invoked the sleeps were
\* exactly d, 2d, ..., (R-1)d, in that order.
ThmC14 ==
    ai_service = "gemini" =>
      /\ \A i \in 1..Len(Sleeps(g_log)) : Sleeps(g_log)[i].dur = SleepBase * i
      /\ \A i \in 1..Len(g_log) :
           g_log[i].ev = "sleep" =>
             /\ i > 1
             /\ g_log[i - 1] = Call(PRIMARY_MODEL, "ServerError", 0)
             /\ g_log[i].dur = SleepBase * PrimaryCallsUpTo(g_log, i)
             /\ PrimaryCallsUpTo(g_log, i) < max_retries
             /\ i < Len(g_log) => g_log[i + 1].model = PRIMARY_MODEL
      /\ \A i \in 1..Len(g_log) :
           g_log[i] = Call(PRIMARY_MODEL, "ServerError", 0) =>
             IF PrimaryCallsUpTo(g_log, i) < max_retries
             THEN IF i < Len(g_log) THEN g_log[i + 1].ev = "sleep" ELSE g_pc = "sleep"
             ELSE IF i < Len(g_log) THEN g_log[i + 1].model = FALLBACK_MODEL
                  ELSE g_pc = "fallback"
      /\ CallsTo(g_log, FALLBACK_MODEL) # <<>> =>
           Sleeps(g_log) = [k \in 1..(max_retries - 1) |-> Slept(SleepBase * k)]

WitC14 ==
    /\ ai_service = "gemini" /\ max_retries = 3 /\ g_pc = "returned"
    /\ Sleeps(g_log) = << Slept(SleepBase), Slept(2 * SleepBase) >>
    /\ Len(CallsTo(g_log, PRIMARY_MODEL)) = 3
    /\ Len(CallsTo(g_log, FALLBACK_MODEL)) = 1

\* C15 as claimed: on gemini, a transient error (ServerError) leaves neither
\* call while something is untried: the blocking call has made all its primary
\* attempts and called the fallback, and the streaming call, when it has
\* yielded no chunk yet, has tried to open the fallback's stream.
ClaimC15 ==
    ai_service = "gemini" =>
      /\ (g_pc = "raised" /\ g_error.type = "ServerError") =>
           /\ Len(CallsTo(g_log, PRIMARY_MODEL)) = max_retries
           /\ CallsTo(g_log, FALLBACK_MODEL) # <<>>
      /\ (s_pc = "raised" /\ s_error.type = "ServerError" /\ s_yielded = <<>>) =>
           CallsTo(s_log, FALLBACK_MODEL) # <<>>

\* a part of some candidate has text that is not blank
RECURSIVE CandidatesCarryText(_)
CandidatesCarryText(cands) ==
    IF cands = <<>> THEN FALSE
    ELSE \/ /\ "content" \in DOMAIN Head(cands) /\ IsSome(Head(cands).content)
            /\ \E i \in 1..Len(TextOf(Head(cands).content).parts) :
                 LET part == TextOf(Head(cands).content).parts[i]
                 IN  IsSome(part.text) /\ Strip(TextOf(part.text)) # <<>>
         \/ CandidatesCarryText(Tail(cands))

\* one of the known shapes of a response has text that is not blank
CarriesText(response) ==
    \/ "text" \in DOMAIN response /\ IsSome(response.text)
         /\ Strip(TextOf(response.text)) # <<>>
    \/ "candidates" \in DOMAIN response /\ CandidatesCarryText(response.candidates)

\* C17 as claimed: for a response that carries text in a known shape,
\* extract_text returns a trimmed string that is not empty; for every other
\* response it raises; it never returns the empty string.
ClaimC17 ==
    g_pc = "returned" =>
      IF CarriesText(g_result)
      THEN /\ extract_text(g_result).ok
           /\ extract_text(g_result).text # <<>>
           /\ extract_text(g_result).text = Strip(extract_text(g_result).text)
      ELSE ~extract_text(g_result).ok

IsPrefix(a, b) == Len(a) <= Len(b) /\ SubSeq(b, 1, Len(a)) = a

\* the final segments, each behind one space, in arrival order
RECURSIVE Accumulated(_)
Accumulated(ss) ==
    IF ss = <<>> THEN <<>>
    ELSE Accumulated(SubSeq(ss, 1, Len(ss) - 1)) \o <<" ">> \o ss[Len(ss)]

\* C18: within one utterance, in either backend, the accumulated final text is
\* after every step the final segments delivered so far and nothing else (no
\* partial text is kept in it), it changes only by a segment appended to it,
\* and every hypothesis yielded (partial, final or terminal) starts with the
\* accumulated final text of each hypothesis yielded before it, and of itself.
ThmC18 ==
    [][ /\ final_text' = Accumulated(segs')
        /\ Len(l_fin') = Len(l_out')
        /\ \A i, j \in 1..Len(l_out') : i <= j => IsPrefix(l_fin'[i], l_out'[j])
        /\ IsPrefix(final_text, final_text')
        /\ final_text' # final_text =>
             \E text \in Words : final_text' = final_text \o <<" ">> \o text ]_vars

WitC18 ==
    /\ l_pc = "done"
    /\ l_out = << <<"a">>, <<"b">>, <<"b">> >>
    /\ l_fin = << <<>>, <<"b">>, <<"b">> >>

\* C19 as claimed: the queue has a capacity: when it has grown to MaxQueue
\* entries while the consumer is suspended at a yield, the producer's put is
\* held back by the queue itself.
ClaimC19 ==
    (l_pc = "yield" /\ Len(q) >= MaxQueue) => PutBlocks(q)

\* C20 as claimed: when the availability probe of the selected variant reports
\* unavailable, capture ends before the loop with the configuration error, no
\* audio stream is opened and no recognition session started, and nothing is
\* yielded.
ClaimC20 ==
    ~stt_ok =>
      /\ l_pc \in {"start", "raised"}
      /\ l_out = <<>>
      /\ l_pc = "raised" => l_error = [type |-> "RuntimeError", msg |-> "Live STT unavailable"]

\* the texts of the chunks of a reply that the stream yields, in order
RECURSIVE YieldingTexts(_, _)
YieldingTexts(service, c) ==
    IF c = <<>> THEN <<>>
    ELSE IF ChunkYields(service, Head(c))
         THEN <<TextOf(Head(c))>> \o YieldingTexts(service, Tail(c))
         ELSE YieldingTexts(service, Tail(c))

\* C21: a call that raises (ask_question, stream_answer in mid-stream) or is
\* abandoned before its stream is exhausted leaves history and the counter
\* as they were; history and the counter change only in the step in which
\* ask_question or stream_answer returns; and an answer appears in the ledger
\* only when the stream has been read to its end, as the stripped
\* concatenation of all the chunks it yielded.
ThmC21 ==
    [][ /\ (e_trace' # e_trace /\ e_trace'[Len(e_trace')].end \in {"raised", "abandoned"})
             => (history' = history /\ turn' = turn)
        /\ (history' # history \/ turn' # turn)
             => /\ e_pc \in {"ask_question", "stream_answer"}
                /\ e_trace' = Append(e_trace, Ended(e_pc, "returned"))
        /\ \A i \in 1..Len(history') :
             (IsSome(history'[i].answer)
                /\ (i > Len(history) \/ history[i].answer # history'[i].answer))
               => /\ s_pc = "returned" /\ s_idx = Len(content) + 1
                  /\ history'[i].answer
                       = Some(Strip(Concat(YieldingTexts(ai_service, content)))) ]_vars

WitC21 ==
    /\ e_pc = "idle" /\ e_trace # <<>>
    /\ LastCall = Ended("stream_answer", "raised")
    /\ Len(content) = 2 /\ Len(s_yielded) = 1
    /\ Len(history) = 1 /\ history[1].answer = None /\ turn = 1

\* C22 as claimed: every Turn of the ledger that has an answer has the answer
\* that was generated for the question that Turn holds.
ClaimC22 ==
    \A i \in 1..Len(history) :
      IsSome(history[i].answer) => e_for[i] = Some(history[i].question)

====
